---- MODULE Spec2Model ----
(***************************************************************************)
(* Model of pkg/share/manila/sharebackends/util.go (export-location        *)
(* splitting, secret create/delete, cephx access granting) and of the      *)
(* keystone sync configuration (validate, formatNamespaceName, loading).   *)
(*                                                                         *)
(* Go strings are modelled as sequences of one-character strings, so that  *)
(* strings.Replace, strings.Contains, strings.LastIndexByte, slicing and   *)
(* len() are computed the way the library computes them.                   *)
(***************************************************************************)
EXTENDS Integers, Sequences, FiniteSets, TLC

VARIABLES
    pc,           \* grantAccessCephx: position of the call
    now,          \* wall clock, in the time units of gophercloud.WaitFor
    start,        \* WaitFor: clock value when the wait began
    grantCalls,   \* number of shares.GrantAccess requests issued
    grantErr,     \* error answered to the GrantAccess request
    listCalls,    \* number of shares.ListAccessRights requests issued
    lastPoll,     \* response of the latest ListAccessRights request
    accessRight,  \* grantAccessCephx: the local variable accessRight
    ret,          \* grantAccessCephx: returned (record, error)
    secrets,      \* cluster secret store: <<namespace, name>> -> data
    trail,        \* the latest secret operations, newest last
    args,         \* arguments of a call of a pure function / the loader
    result        \* what that call returned (NotCalled before it returns)

vars == <<pc, now, start, grantCalls, grantErr, listCalls, lastPoll, accessRight, ret,
          secrets, trail, args, result>>

grantVars == <<pc, now, start, grantCalls, grantErr, listCalls, lastPoll, accessRight,
               ret>>
secretVars == <<secrets, trail>>
callVars == <<args, result>>

-----------------------------------------------------------------------------
(* Errors are values with a message; nil is the absent error.              *)

Nil == [msg |-> "nil", n |-> 0]

NotCalled == [called |-> FALSE]

-----------------------------------------------------------------------------
(* grantAccessCephx                                                        *)

\* Largest number of access-right records one list response carries.
MaxRights == 2
\* Longest time one ListAccessRights request takes.
MaxPollDelay == 1
\* The budget handed to gophercloud.WaitFor.
WaitBudget == 120

AccessKeys == {"", "key1", "key2"}

\* The zero value of shares.AccessRight.
ZeroAccessRight == [AccessKey |-> ""]

AccessRights == [AccessKey : AccessKeys]

ErrTimeout == [msg |-> "A timeout occurred", n |-> 0]
ErrBackend == [msg |-> "backend request failed", n |-> 0]
ErrUnexpectedNumber(k) ==
    [msg |-> "unexpected number of access rules: got %d, expected 1", n |-> k]

\* What shares.ListAccessRights(...).Extract() can return: (records, err).
ListResponses ==
    {[rights |-> <<>>, err |-> ErrBackend]}
    \cup {[rights |-> r, err |-> Nil] :
            r \in UNION {[1..k -> AccessRights] : k \in 0..MaxRights}}

NoRequest == [msg |-> "no request yet", n |-> 0]
NoPoll == [rights |-> <<>>, err |-> NoRequest]

\* Variants of the predicate with one of its tests wrong.
predicateAnyKey(resp, ar) ==
    IF resp.err # Nil
    THEN [ok |-> FALSE, err |-> resp.err, accessRight |-> ar]
    ELSE IF Len(resp.rights) > 1
    THEN [ok |-> FALSE, err |-> ErrUnexpectedNumber(Len(resp.rights)),
          accessRight |-> ar]
    ELSE IF Len(resp.rights) = 0
    THEN [ok |-> FALSE, err |-> Nil, accessRight |-> ar]
    ELSE [ok |-> TRUE, err |-> Nil, accessRight |-> resp.rights[1]]

predicateManyPending(resp, ar) ==
    IF resp.err # Nil
    THEN [ok |-> FALSE, err |-> resp.err, accessRight |-> ar]
    ELSE IF Len(resp.rights) # 1
    THEN [ok |-> FALSE, err |-> Nil, accessRight |-> ar]
    ELSE IF resp.rights[1].AccessKey # ""
    THEN [ok |-> TRUE, err |-> Nil, accessRight |-> resp.rights[1]]
    ELSE [ok |-> FALSE, err |-> Nil, accessRight |-> ar]

predicateNoneIsError(resp, ar) ==
    IF resp.err # Nil
    THEN [ok |-> FALSE, err |-> resp.err, accessRight |-> ar]
    ELSE IF Len(resp.rights) # 1
    THEN [ok |-> FALSE, err |-> ErrUnexpectedNumber(Len(resp.rights)),
          accessRight |-> ar]
    ELSE IF resp.rights[1].AccessKey # ""
    THEN [ok |-> TRUE, err |-> Nil, accessRight |-> resp.rights[1]]
    ELSE [ok |-> FALSE, err |-> Nil, accessRight |-> ar]

\* The predicate handed to WaitFor, applied to one list response: whether the
\* wait is satisfied, the error, and the new value of the captured accessRight.
predicate(resp, ar) ==
    IF resp.err # Nil
    THEN [ok |-> FALSE, err |-> resp.err, accessRight |-> ar]
    ELSE IF Len(resp.rights) > 1
    THEN [ok |-> FALSE, err |-> ErrUnexpectedNumber(Len(resp.rights)),
          accessRight |-> ar]
    ELSE IF Len(resp.rights) = 0
    THEN [ok |-> FALSE, err |-> Nil, accessRight |-> ar]
    ELSE IF resp.rights[1].AccessKey # ""
    THEN [ok |-> TRUE, err |-> Nil, accessRight |-> resp.rights[1]]
    ELSE [ok |-> FALSE, err |-> Nil, accessRight |-> ar]

\* The (*shares.AccessRight, error) pair returned; hasRec is FALSE for a nil pointer.
NoReturn == [returned |-> FALSE, hasRec |-> FALSE, rec |-> ZeroAccessRight, err |-> Nil]
ReturnNil(err) == [returned |-> TRUE, hasRec |-> FALSE, rec |-> ZeroAccessRight, err |-> err]
Return(rec, err) == [returned |-> TRUE, hasRec |-> TRUE, rec |-> rec, err |-> err]

InitGrantVars ==
    /\ pc = "grant"
    /\ now = 0
    /\ start = 0
    /\ grantCalls = 0
    /\ grantErr = NoRequest
    /\ listCalls = 0
    /\ lastPoll = NoPoll
    /\ accessRight = ZeroAccessRight
    /\ ret = NoReturn

\* Variant of GrantAccess that goes on to wait although the request failed.
GrantAccessIgnoringError(err) ==
    /\ pc = "grant"
    /\ grantCalls' = grantCalls + 1
    /\ grantErr' = err
    /\ pc' = "check"
    /\ ret' = ret
    /\ start' = now
    /\ UNCHANGED <<now, listCalls, lastPoll, accessRight, secretVars, callVars>>

\* shares.GrantAccess(...).Extract(): one request; on error return (nil, err),
\* otherwise enter WaitFor, which notes the starting time.
GrantAccess(err) ==
    /\ pc = "grant"
    /\ grantCalls' = grantCalls + 1
    /\ grantErr' = err
    /\ IF err # Nil
       THEN /\ pc' = "done"
            /\ ret' = ReturnNil(err)
            /\ start' = start
       ELSE /\ pc' = "check"
            /\ ret' = ret
            /\ start' = now
    /\ UNCHANGED <<now, listCalls, lastPoll, accessRight, secretVars, callVars>>

\* WaitFor, head of the loop: the budget has elapsed.
WaitForTimeout ==
    /\ pc = "check"
    /\ now - start >= WaitBudget
    /\ pc' = "done"
    /\ ret' = Return(accessRight, ErrTimeout)
    /\ UNCHANGED <<now, start, grantCalls, grantErr, listCalls, lastPoll, accessRight>>
    /\ UNCHANGED <<secretVars, callVars>>

\* WaitFor, head of the loop: budget left, sleep one interval.
WaitForSleep ==
    /\ pc = "check"
    /\ now - start < WaitBudget
    /\ now' = now + 1
    /\ pc' = "poll"
    /\ UNCHANGED <<start, grantCalls, grantErr, listCalls, lastPoll, accessRight, ret>>
    /\ UNCHANGED <<secretVars, callVars>>

\* WaitFor calls the predicate: one ListAccessRights request taking d time
\* units and answering resp; an error or satisfaction ends the wait.
WaitForPoll(resp, d) ==
    /\ pc = "poll"
    /\ listCalls' = listCalls + 1
    /\ lastPoll' = resp
    /\ now' = now + d
    /\ LET p == predicate(resp, accessRight) IN
       /\ accessRight' = p.accessRight
       /\ IF p.err # Nil
          THEN pc' = "done" /\ ret' = Return(p.accessRight, p.err)
          ELSE IF p.ok
          THEN pc' = "done" /\ ret' = Return(p.accessRight, Nil)
          ELSE pc' = "check" /\ ret' = ret
    /\ UNCHANGED <<start, grantCalls, grantErr, secretVars, callVars>>

GrantErrors == {Nil, ErrBackend}
PollDelays == 0..MaxPollDelay

NextGrant ==
    \/ \E err \in GrantErrors : GrantAccess(err)
    \/ WaitForTimeout
    \/ WaitForSleep
    \/ \E resp \in ListResponses, d \in PollDelays : WaitForPoll(resp, d)

-----------------------------------------------------------------------------
(* getSecretName, createSecret, deleteSecret and the cluster secret store  *)

Namespaces == {"default", "tenant"}

ShareIDs == {<<"s">>, <<"s", "1">>}

SecretData == {"d1"}
\* Data of secrets that were in the store before any call.
OldData == "d0"
NoSecret == "<no secret>"

ManilaPrefix == <<"m", "a", "n", "i", "l", "a", "-">>

\* Variant of getSecretName that forgets the prefix.
getSecretNameBare(shareID) == shareID

getSecretName(shareID) == ManilaPrefix \o shareID

\* Names the store is watched under: the derived names and the bare share ids.
SecretNames == {ManilaPrefix \o id : id \in ShareIDs} \cup ShareIDs

StoreKeys == Namespaces \X SecretNames

ErrAlreadyExists == [msg |-> "secret already exists", n |-> 0]
ErrNotFound == [msg |-> "secret not found", n |-> 0]

\* cs.CoreV1().Secrets(namespace).Create(&sec): the store after it, and its error.
SecretsCreate(st, namespace, name, data) ==
    IF st[<<namespace, name>>] # NoSecret
    THEN [secrets |-> st, err |-> ErrAlreadyExists]
    ELSE [secrets |-> [st EXCEPT ![<<namespace, name>>] = data], err |-> Nil]

\* cs.CoreV1().Secrets(namespace).Delete(name, nil)
SecretsDelete(st, namespace, name) ==
    IF st[<<namespace, name>>] = NoSecret
    THEN [secrets |-> st, err |-> ErrNotFound]
    ELSE [secrets |-> [st EXCEPT ![<<namespace, name>>] = NoSecret], err |-> Nil]

createSecret(name, namespace, cs, data) ==
    LET c == SecretsCreate(cs, namespace, name, data) IN
    IF c.err # Nil
    THEN [secrets |-> c.secrets, err |-> c.err]
    ELSE [secrets |-> c.secrets, err |-> Nil]

deleteSecret(name, namespace, cs) == SecretsDelete(cs, namespace, name)

Op(kind, shareID, namespace, err, before) ==
    [op |-> kind, shareID |-> shareID, ns |-> namespace, err |-> err, before |-> before]

\* The two latest operations.
Latest(t, o) == IF Len(t) < 2 THEN Append(t, o) ELSE <<t[2], o>>

InitSecretVars ==
    /\ secrets \in [StoreKeys -> {NoSecret, OldData}]
    /\ trail = <<>>

\* bind: createSecret under the name derived from the share id.
Bind(shareID, namespace, data) ==
    LET r == createSecret(getSecretName(shareID), namespace, secrets, data) IN
    /\ secrets' = r.secrets
    /\ trail' = Latest(trail, Op("bind", shareID, namespace, r.err, secrets))
    /\ UNCHANGED <<grantVars, callVars>>

\* unbind: deleteSecret under the name derived from the share id.
Unbind(shareID, namespace) ==
    LET r == deleteSecret(getSecretName(shareID), namespace, secrets) IN
    /\ secrets' = r.secrets
    /\ trail' = Latest(trail, Op("unbind", shareID, namespace, r.err, secrets))
    /\ UNCHANGED <<grantVars, callVars>>

NextSecret ==
    \/ \E id \in ShareIDs, ns \in Namespaces, data \in SecretData : Bind(id, ns, data)
    \/ \E id \in ShareIDs, ns \in Namespaces : Unbind(id, ns)

-----------------------------------------------------------------------------
(* Go strings: sequences of one-character strings                          *)

\* All strings over the characters cs of length at most n.
Strings(cs, n) == UNION {[1..k -> cs] : k \in 0..n}

\* The string of n characters c.
Repeat(c, n) == [i \in 1..n |-> c]

\* Whether substr stands in s at the 0-based index i.
HasAt(s, substr, i) ==
    i + Len(substr) <= Len(s) /\ SubSeq(s, i + 1, i + Len(substr)) = substr

\* strings.Contains(s, substr)
Contains(s, substr) == \E i \in 0..(Len(s) - Len(substr)) : HasAt(s, substr, i)

\* strings.Index(s, substr): the 0-based index of the first occurrence, or -1.
Index(s, substr) ==
    IF ~Contains(s, substr) THEN -1
    ELSE CHOOSE i \in 0..(Len(s) - Len(substr)) :
            HasAt(s, substr, i) /\ \A k \in 0..(i - 1) : ~HasAt(s, substr, k)

\* strings.Replace(s, old, new, -1) for a non-empty old: find the next
\* occurrence of old from the end of the previous one, copy what precedes it,
\* then new; what follows the last occurrence is copied as it is.
RECURSIVE Replace(_, _, _)
Replace(s, old, new) ==
    LET j == Index(s, old) IN
    IF j < 0
    THEN s
    ELSE SubSeq(s, 1, j) \o new \o Replace(SubSeq(s, j + Len(old) + 1, Len(s)), old, new)

\* strings.LastIndexByte(s, c): the 0-based index of the last c, or -1.
RECURSIVE LastIndexFrom(_, _, _)
LastIndexFrom(s, c, i) ==
    IF i = 0 THEN -1
    ELSE IF s[i] = c THEN i - 1
    ELSE LastIndexFrom(s, c, i - 1)

LastIndexByte(s, c) == LastIndexFrom(s, c, Len(s))

PlaceholderID == <<"%", "i">>
PlaceholderName == <<"%", "n">>
PlaceholderDomain == <<"%", "d">>

-----------------------------------------------------------------------------
(* splitExportLocation                                                     *)

\* Longest export-location path tried.
MaxPathLen == 5

PathChars == {":", "a", "/"}
Paths == Strings(PathChars, MaxPathLen)

ErrParseExportLocation ==
    [msg |-> "failed to parse address and location from export location", n |-> 0]

\* Variant of splitExportLocation that splits at the first colon.
splitExportLocationFirstColon(path) ==
    LET delimPos == Index(path, <<":">>) IN
    IF delimPos <= 0
    THEN [address |-> <<>>, location |-> <<>>, err |-> ErrParseExportLocation]
    ELSE [address |-> SubSeq(path, 1, delimPos),
          location |-> SubSeq(path, delimPos + 2, Len(path)),
          err |-> Nil]

splitExportLocation(path) ==
    LET delimPos == LastIndexByte(path, ":") IN
    IF delimPos <= 0
    THEN [address |-> <<>>, location |-> <<>>, err |-> ErrParseExportLocation]
    ELSE [address |-> SubSeq(path, 1, delimPos),
          location |-> SubSeq(path, delimPos + 2, Len(path)),
          err |-> Nil]

InitSplitArgs ==
    /\ args \in [Path : Paths]
    /\ result = NotCalled

Split ==
    /\ result = NotCalled
    /\ LET r == splitExportLocation(args.Path) IN
       result' = [called |-> TRUE, address |-> r.address,
                  location |-> r.location, err |-> r.err]
    /\ UNCHANGED <<args, grantVars, secretVars>>

-----------------------------------------------------------------------------
(* syncConfig: validate, formatNamespaceName, newSyncConfig(FromFile)      *)

\* Longest namespace format tried.
MaxTemplateLen == 4
\* Longest namespace name formatNamespaceName lets through.
MaxNamespaceLen == 63

allowedDataTypesToSync == <<"projects">>

Lower == {"a", "b", "c", "d", "e", "f", "g", "h", "i", "j", "k", "l", "m",
          "n", "o", "p", "q", "r", "s", "t", "u", "v", "w", "x", "y", "z"}
Upper == {"A", "B", "C", "D", "E", "F", "G", "H", "I", "J", "K", "L", "M",
          "N", "O", "P", "Q", "R", "S", "T", "U", "V", "W", "X", "Y", "Z"}
Digits == {"0", "1", "2", "3", "4", "5", "6", "7", "8", "9"}

\* [a-zA-Z0-9] and [a-zA-Z0-9_.-]
EdgeClass == Lower \cup Upper \cup Digits
InnerClass == EdgeClass \cup {"_", ".", "-"}

\* [a-zA-Z0-9_.-]*[a-zA-Z0-9]$ matched from the head of s.
RECURSIVE MatchRest(_)
MatchRest(s) ==
    IF Len(s) = 0 THEN FALSE
    ELSE IF s[1] \in InnerClass /\ MatchRest(Tail(s)) THEN TRUE
    ELSE Len(s) = 1 /\ s[1] \in EdgeClass

\* re.MatchString(s) for ^[a-zA-Z0-9][a-zA-Z0-9_.-]*[a-zA-Z0-9]$
MatchString(s) ==
    IF Len(s) = 0 THEN FALSE
    ELSE s[1] \in EdgeClass /\ MatchRest(Tail(s))

ErrNoProjectID ==
    [msg |-> "format string should comprise a %i substring (keystone project id)",
     n |-> 0]
ErrBadNamespaceName ==
    [msg |-> "namespace name must consist of alphanumeric characters, '-', '_' or '.', and must start and end with an alphanumeric character",
     n |-> 0]
\* The error names the offending tag; n is its position in DataTypesToSync.
ErrUnsupportedDataType(k) ==
    [msg |-> "Unsupported data type to sync: %v. Available values: projects", n |-> k]

\* The loop over DataTypesToSync from position k: the first tag that is not in
\* allowedDataTypesToSync ends validate with an error.
RECURSIVE CheckDataTypes(_, _)
CheckDataTypes(dts, k) ==
    IF k > Len(dts) THEN Nil
    ELSE IF \E j \in 1..Len(allowedDataTypesToSync) : allowedDataTypesToSync[j] = dts[k]
    THEN CheckDataTypes(dts, k + 1)
    ELSE ErrUnsupportedDataType(k)

TwoChars == <<"a", "a">>

\* Variant of validate without the test for %i.
validateNoProjectID(sc) ==
    LET ts == Replace(Replace(Replace(sc.NamespaceFormat, PlaceholderID, TwoChars),
                              PlaceholderName, TwoChars),
                      PlaceholderDomain, TwoChars) IN
    IF ~MatchString(ts)
    THEN ErrBadNamespaceName
    ELSE CheckDataTypes(sc.DataTypesToSync, 1)

validate(sc) ==
    IF ~Contains(sc.NamespaceFormat, PlaceholderID)
    THEN ErrNoProjectID
    ELSE LET ts == Replace(Replace(Replace(sc.NamespaceFormat, PlaceholderID, TwoChars),
                                   PlaceholderName, TwoChars),
                           PlaceholderDomain, TwoChars) IN
         IF ~MatchString(ts)
         THEN ErrBadNamespaceName
         ELSE CheckDataTypes(sc.DataTypesToSync, 1)

formatNamespaceName(sc, id, name, domain) ==
    LET res == Replace(Replace(Replace(sc.NamespaceFormat, PlaceholderID, id),
                               PlaceholderName, name),
                       PlaceholderDomain, domain) IN
    IF Len(res) > MaxNamespaceLen THEN id ELSE res

\* Variant of newSyncConfig that enables no data type.
newSyncConfigNoDataTypes ==
    [DataTypesToSync |-> <<>>,
     NamespaceFormat |-> PlaceholderID,
     ProjectBlackList |-> <<>>]

newSyncConfig ==
    [DataTypesToSync |-> allowedDataTypesToSync,
     NamespaceFormat |-> PlaceholderID,
     ProjectBlackList |-> <<>>]

(* validate *)

TemplateChars == {"%", "i", "n", "d", "A", "0", "-", ".", "_", "/"}
Templates == Strings(TemplateChars, MaxTemplateLen)

DataTypeLists ==
    {<<>>, <<"projects">>, <<"roles">>, <<"projects", "roles">>, <<"projects", "projects">>}

InitValidateArgs ==
    /\ args \in [sc : [DataTypesToSync : DataTypeLists,
                       NamespaceFormat : Templates,
                       ProjectBlackList : {<<>>}]]
    /\ result = NotCalled

\* sc.validate(): reads the config through sc and assigns nothing to it.
Validate ==
    /\ result = NotCalled
    /\ result' = [called |-> TRUE, err |-> validate(args.sc)]
    /\ UNCHANGED <<args, grantVars, secretVars>>

(* formatNamespaceName *)

FormatChars == {"%", "i", "n", "d", "-"}
FormatTemplates == Strings(FormatChars, MaxTemplateLen)

ProjectIDs == {<<>>, <<"a">>, PlaceholderName, Repeat("a", MaxNamespaceLen)}
ProjectNames == {<<"b">>, PlaceholderDomain, Repeat("b", MaxNamespaceLen + 1)}
DomainNames == {<<"c">>, PlaceholderID}

InitFormatArgs ==
    /\ args \in [sc : [DataTypesToSync : {allowedDataTypesToSync},
                       NamespaceFormat : FormatTemplates,
                       ProjectBlackList : {<<>>}],
                 id : ProjectIDs, name : ProjectNames, domain : DomainNames]
    /\ result = NotCalled

Format ==
    /\ result = NotCalled
    /\ result' = [called |-> TRUE,
                  name |-> formatNamespaceName(args.sc, args.id, args.name, args.domain)]
    /\ UNCHANGED <<args, grantVars, secretVars>>

(* newSyncConfigFromFile *)

ErrReadFile == [msg |-> "open: no such file or directory", n |-> 0]
ErrYaml == [msg |-> "yaml: unmarshal error", n |-> 0]

DocKeys == {"data_types_to_sync", "namespace_format", "projects_black_list"}

\* A parsed document: the keys it holds and their values (<<>> under an absent key).
Docs ==
    {d \in [present : SUBSET DocKeys,
            data_types_to_sync : {<<>>, <<"projects">>, <<"roles">>},
            namespace_format : {<<>>, <<"%", "n">>, <<"k", "-", "%", "i">>},
            projects_black_list : {<<>>, <<<<"p", "1">>>>, <<<<"p", "1">>, <<"p", "2">>>>}] :
        /\ ("data_types_to_sync" \notin d.present => d.data_types_to_sync = <<>>)
        /\ ("namespace_format" \notin d.present => d.namespace_format = <<>>)
        /\ ("projects_black_list" \notin d.present => d.projects_black_list = <<>>)}

EmptyDoc ==
    [present |-> {}, data_types_to_sync |-> <<>>, namespace_format |-> <<>>,
     projects_black_list |-> <<>>]

\* The file at path: unreadable, or its bytes, malformed or holding a document.
Files ==
    {[readErr |-> TRUE, malformed |-> FALSE, doc |-> EmptyDoc],
     [readErr |-> FALSE, malformed |-> TRUE, doc |-> EmptyDoc]}
    \cup {[readErr |-> FALSE, malformed |-> FALSE, doc |-> d] : d \in Docs}

\* yaml.Unmarshal(yamlFile, &sc): the fields whose keys the document holds are
\* set from it, the others are left as they are.
yamlUnmarshal(file, sc) ==
    IF file.malformed
    THEN [sc |-> sc, err |-> ErrYaml]
    ELSE [sc |-> [DataTypesToSync |->
                      IF "data_types_to_sync" \in file.doc.present
                      THEN file.doc.data_types_to_sync ELSE sc.DataTypesToSync,
                  NamespaceFormat |->
                      IF "namespace_format" \in file.doc.present
                      THEN file.doc.namespace_format ELSE sc.NamespaceFormat,
                  ProjectBlackList |->
                      IF "projects_black_list" \in file.doc.present
                      THEN file.doc.projects_black_list ELSE sc.ProjectBlackList],
          err |-> Nil]

\* The zero syncConfig, standing under a nil *syncConfig.
ZeroSyncConfig ==
    [DataTypesToSync |-> <<>>, NamespaceFormat |-> <<>>, ProjectBlackList |-> <<>>]

newSyncConfigFromFile(file) ==
    LET sc == newSyncConfig IN
    IF file.readErr
    THEN [hasCfg |-> FALSE, sc |-> ZeroSyncConfig, err |-> ErrReadFile]
    ELSE LET u == yamlUnmarshal(file, sc) IN
         IF u.err # Nil
         THEN [hasCfg |-> FALSE, sc |-> ZeroSyncConfig, err |-> u.err]
         ELSE [hasCfg |-> TRUE, sc |-> u.sc, err |-> Nil]

InitLoadArgs ==
    /\ args \in [file : Files]
    /\ result = NotCalled

Load ==
    /\ result = NotCalled
    /\ LET r == newSyncConfigFromFile(args.file) IN
       result' = [called |-> TRUE, hasCfg |-> r.hasCfg, sc |-> r.sc, err |-> r.err]
    /\ UNCHANGED <<args, grantVars, secretVars>>

-----------------------------------------------------------------------------
(* Specifications: one per component, the other components at rest         *)

GrantAtRest ==
    /\ pc = "rest"
    /\ now = 0
    /\ start = 0
    /\ grantCalls = 0
    /\ grantErr = NoRequest
    /\ listCalls = 0
    /\ lastPoll = NoPoll
    /\ accessRight = ZeroAccessRight
    /\ ret = NoReturn

SecretsAtRest ==
    /\ secrets = [k \in StoreKeys |-> NoSecret]
    /\ trail = <<>>

CallAtRest ==
    /\ args = [none |-> TRUE]
    /\ result = NotCalled

InitGrant == InitGrantVars /\ SecretsAtRest /\ CallAtRest
SpecGrant == InitGrant /\ [][NextGrant]_vars
LiveGrant == InitGrant /\ [][NextGrant]_vars /\ WF_vars(NextGrant)

InitSecret == InitSecretVars /\ GrantAtRest /\ CallAtRest
SpecSecret == InitSecret /\ [][NextSecret]_vars

InitSplit == InitSplitArgs /\ GrantAtRest /\ SecretsAtRest
SpecSplit == InitSplit /\ [][Split]_vars

InitValidate == InitValidateArgs /\ GrantAtRest /\ SecretsAtRest
SpecValidate == InitValidate /\ [][Validate]_vars

InitFormat == InitFormatArgs /\ GrantAtRest /\ SecretsAtRest
SpecFormat == InitFormat /\ [][Format]_vars

InitLoad == InitLoadArgs /\ GrantAtRest /\ SecretsAtRest
SpecLoad == InitLoad /\ [][Load]_vars

-----------------------------------------------------------------------------
(* Properties of grantAccessCephx                                          *)

\* A list response that is not yet ready: no record, or one with an empty key.
Pending(resp) ==
    /\ resp.err = Nil
    /\ Len(resp.rights) <= 1
    /\ \A i \in 1..Len(resp.rights) : resp.rights[i].AccessKey = ""

\* A list response carrying exactly one record with a key.
Ready(resp) ==
    /\ resp.err = Nil
    /\ Len(resp.rights) = 1
    /\ resp.rights[1].AccessKey # ""

\* A list response that is an error or carries more than one record.
Fatal(resp) == resp.err # Nil \/ Len(resp.rights) > 1

\* A step that issues a ListAccessRights request.
PollStep == listCalls' = listCalls + 1

\* C1: a poll answering no record, or one record with an empty access key,
\* does not end the wait and returns nothing; a poll answering exactly one
\* record with a non-empty key ends the wait, and the call returns that very
\* record and no error.
C1_ReadyPollEndsWait ==
    [][PollStep =>
        /\ Pending(lastPoll') => (pc' # "done" /\ ~ret'.returned)
        /\ Ready(lastPoll') =>
              /\ pc' = "done"
              /\ ret' = [returned |-> TRUE, hasRec |-> TRUE,
                         rec |-> lastPoll'.rights[1], err |-> Nil]]_vars

\* The scripted run: two or more pending polls, then the record with its key.
C1_Witness ==
    /\ pc = "done"
    /\ listCalls >= 3
    /\ ret.returned /\ ret.err = Nil /\ ret.hasRec
    /\ ret.rec.AccessKey # ""
    /\ ret.rec = lastPoll.rights[1]

\* C2: a poll answering a backend error or more than one record ends the wait
\* in that very step, with the backend's error, respectively the error about
\* the number of records, never the timeout error; once the call has returned
\* no further request is issued and no time is waited.
C2_FatalPollEndsWait ==
    [][/\ (PollStep /\ Fatal(lastPoll')) =>
              /\ pc' = "done"
              /\ ret'.returned
              /\ ret'.err # Nil /\ ret'.err # ErrTimeout
              /\ lastPoll'.err # Nil => ret'.err = lastPoll'.err
              /\ lastPoll'.err = Nil =>
                    ret'.err = ErrUnexpectedNumber(Len(lastPoll'.rights))
       /\ pc = "done" => (listCalls' = listCalls /\ now' = now /\ ret' = ret)]_vars

\* Two records at the first poll: the call has returned long before the budget.
C2_Witness ==
    /\ pc = "done"
    /\ listCalls = 1
    /\ Len(lastPoll.rights) = 2
    /\ ret.err = ErrUnexpectedNumber(2)
    /\ now - start < WaitBudget

\* C3: the grant request is issued exactly once and before any poll; when it
\* fails the call has returned that error and a nil record, and no
\* ListAccessRights request is ever issued.
C3_GrantOnceNoRetry ==
    /\ grantCalls <= 1
    /\ (listCalls > 0 \/ ret.returned \/ pc # "grant") => grantCalls = 1
    /\ (grantCalls = 1 /\ grantErr # Nil) =>
          /\ pc = "done"
          /\ ret = [returned |-> TRUE, hasRec |-> FALSE,
                    rec |-> ZeroAccessRight, err |-> grantErr]
          /\ listCalls = 0

C3_Witness ==
    /\ pc = "done"
    /\ grantCalls = 1
    /\ grantErr = ErrBackend
    /\ ret.err = ErrBackend

\* C4: when the grant succeeds and every poll is pending, the call eventually
\* returns the timeout error, which is neither the backend's error nor the
\* error about the number of records; whenever the timeout error is returned
\* the whole budget has elapsed since the wait began.
C4_TimeoutAfterBudget ==
    /\ ([](grantErr # ErrBackend /\ (listCalls > 0 => Pending(lastPoll))))
          => <>(pc = "done" /\ ret.returned /\ ret.err = ErrTimeout)
    /\ [](ret.err = ErrTimeout =>
             /\ now - start >= WaitBudget
             /\ ret.err # ErrBackend
             /\ \A k \in 0..(MaxRights + 1) : ret.err # ErrUnexpectedNumber(k))

C4_Witness ==
    /\ pc = "done"
    /\ ret.err = ErrTimeout
    /\ listCalls > 1
    /\ Pending(lastPoll)
    /\ now - start >= WaitBudget

-----------------------------------------------------------------------------
(* Properties of the secret operations                                     *)

\* The store key of the secret of a share: its namespace and "manila-"+shareID.
SecretKey(o) == <<o.ns, ManilaPrefix \o o.shareID>>

SameSecret(a, b) == a.shareID = b.shareID /\ a.ns = b.ns

\* C5: after bind and then unbind of the same share id and namespace the store
\* holds no secret under "manila-"+shareID in that namespace and every other
\* secret is as it was before the bind; an unbind when the store holds no such
\* secret, as a second unbind does, returns the store's not-found error.
C5_BindUnbindRoundTrip ==
    /\ (/\ Len(trail) = 2
        /\ trail[1].op = "bind" /\ trail[2].op = "unbind"
        /\ SameSecret(trail[1], trail[2])) =>
          /\ secrets[SecretKey(trail[2])] = NoSecret
          /\ \A k \in StoreKeys \ {SecretKey(trail[2])} : secrets[k] = trail[1].before[k]
    /\ \A i \in 1..Len(trail) :
          (trail[i].op = "unbind" /\ trail[i].before[SecretKey(trail[i])] = NoSecret)
             => trail[i].err = ErrNotFound
    /\ (/\ Len(trail) = 2
        /\ trail[1].op = "unbind" /\ trail[2].op = "unbind"
        /\ SameSecret(trail[1], trail[2])) => trail[2].err = ErrNotFound

\* A bind that created the secret, then its unbind, beside other secrets.
C5_Witness ==
    /\ Len(trail) = 2
    /\ trail[1].op = "bind" /\ trail[1].err = Nil
    /\ trail[2].op = "unbind" /\ trail[2].err = Nil
    /\ SameSecret(trail[1], trail[2])
    /\ secrets[SecretKey(trail[2])] = NoSecret
    /\ \E k \in StoreKeys : secrets[k] # NoSecret

-----------------------------------------------------------------------------
(* Properties of splitExportLocation                                       *)

HasColon(p) == \E i \in 1..Len(p) : p[i] = ":"

\* The position (from 1) of the last colon of a path that has one.
LastColon(p) == CHOOSE i \in 1..Len(p) : p[i] = ":" /\ \A j \in (i + 1)..Len(p) : p[j] # ":"

\* C9: the split fails, with the parse error, exactly when the path has no
\* colon or its last colon is its first character; otherwise the address is
\* what precedes the last colon and the location what follows it, so address,
\* ":" and location make up the path and the location holds no colon.
C9_SplitAtLastColon ==
    result.called =>
        LET p == args.Path IN
        IF ~HasColon(p) \/ LastColon(p) = 1
        THEN result.err = ErrParseExportLocation
        ELSE /\ result.err = Nil
             /\ result.address = SubSeq(p, 1, LastColon(p) - 1)
             /\ result.location = SubSeq(p, LastColon(p) + 1, Len(p))
             /\ result.address \o <<":">> \o result.location = p
             /\ ~HasColon(result.location)

\* An address that itself holds a colon.
C9_Witness ==
    /\ result.called
    /\ result.err = Nil
    /\ HasColon(result.address)
    /\ Len(result.location) > 0

-----------------------------------------------------------------------------
(* Properties of validate and formatNamespaceName                          *)

\* The template with its placeholders replaced in one pass over the template:
\* what is put in is not looked at again.
RECURSIVE Substitute(_, _, _, _)
Substitute(t, id, name, domain) ==
    IF Len(t) = 0 THEN <<>>
    ELSE IF HasAt(t, PlaceholderID, 0)
    THEN id \o Substitute(SubSeq(t, 3, Len(t)), id, name, domain)
    ELSE IF HasAt(t, PlaceholderName, 0)
    THEN name \o Substitute(SubSeq(t, 3, Len(t)), id, name, domain)
    ELSE IF HasAt(t, PlaceholderDomain, 0)
    THEN domain \o Substitute(SubSeq(t, 3, Len(t)), id, name, domain)
    ELSE <<Head(t)>> \o Substitute(Tail(t), id, name, domain)

\* ^[A-Za-z0-9][A-Za-z0-9_.-]*[A-Za-z0-9]$ read off the string.
WellFormedName(s) ==
    /\ Len(s) >= 2
    /\ s[1] \in EdgeClass
    /\ s[Len(s)] \in EdgeClass
    /\ \A i \in 2..(Len(s) - 1) : s[i] \in InnerClass

SamplePlaceholder == <<"x", "0">>

\* C8: validate returns no error exactly when the template holds "%i", the
\* template with %i, %n and %d replaced by a 2-character alphanumeric string is
\* a well-formed name, and every tag of DataTypesToSync is "projects"; the
\* config is the same after the call.
C8_ValidateIff ==
    [][result' # result =>
        /\ args' = args
        /\ (result'.err = Nil) <=>
              /\ Contains(args.sc.NamespaceFormat, <<"%", "i">>)
              /\ WellFormedName(Substitute(args.sc.NamespaceFormat, SamplePlaceholder,
                                           SamplePlaceholder, SamplePlaceholder))
              /\ \A k \in 1..Len(args.sc.DataTypesToSync) :
                    args.sc.DataTypesToSync[k] \in {"projects"}]_vars

\* A template with two placeholders and a list of tags is accepted.
C8_Witness ==
    /\ result.called
    /\ result.err = Nil
    /\ Contains(args.sc.NamespaceFormat, PlaceholderName)
    /\ Len(args.sc.DataTypesToSync) = 2

HoldsPlaceholder(v) ==
    Contains(v, PlaceholderID) \/ Contains(v, PlaceholderName) \/ Contains(v, PlaceholderDomain)

\* C6: when the id, name or domain put in holds a literal %i, %n or %d, what
\* formatNamespaceName returns is still the template with its own placeholders
\* substituted independently of each other (or the id, for a name too long):
\* the placeholder inside the value is not substituted again.
C6_NoResubstitution ==
    (/\ result.called
     /\ HoldsPlaceholder(args.id) \/ HoldsPlaceholder(args.name) \/ HoldsPlaceholder(args.domain)) =>
        result.name \in {Substitute(args.sc.NamespaceFormat, args.id, args.name, args.domain),
                         args.id}

\* C7: formatNamespaceName returns the template with every %i, %n and %d
\* replaced by id, name and domain when that string has at most 63 characters,
\* and the id when it has more.
C7_FormatOrFallback ==
    result.called =>
        LET res == Substitute(args.sc.NamespaceFormat, args.id, args.name, args.domain) IN
        result.name = IF Len(res) > 63 THEN args.id ELSE res

-----------------------------------------------------------------------------
(* Properties of newSyncConfigFromFile                                     *)

DefaultConfig ==
    [DataTypesToSync |-> <<"projects">>,
     NamespaceFormat |-> <<"%", "i">>,
     ProjectBlackList |-> <<>>]

\* C10: loading fails, and returns no config, exactly when the file cannot be
\* read or is malformed, whether or not the config would pass validate;
\* otherwise every field whose key the document holds has the document's
\* value and every other field its default, so the empty document gives the
\* default config.
C10_LoadOverlaysDefaults ==
    result.called =>
        LET f == args.file IN
        IF f.readErr \/ f.malformed
        THEN result.err # Nil /\ ~result.hasCfg
        ELSE /\ result.err = Nil /\ result.hasCfg
             /\ result.sc.DataTypesToSync =
                   IF "data_types_to_sync" \in f.doc.present
                   THEN f.doc.data_types_to_sync ELSE DefaultConfig.DataTypesToSync
             /\ result.sc.NamespaceFormat =
                   IF "namespace_format" \in f.doc.present
                   THEN f.doc.namespace_format ELSE DefaultConfig.NamespaceFormat
             /\ result.sc.ProjectBlackList =
                   IF "projects_black_list" \in f.doc.present
                   THEN f.doc.projects_black_list ELSE DefaultConfig.ProjectBlackList
             /\ f.doc.present = {} => result.sc = DefaultConfig

\* A document that sets only namespace_format, to a template validate rejects.
C10_Witness ==
    /\ result.called
    /\ result.hasCfg /\ result.err = Nil
    /\ args.file.doc.present = {"namespace_format"}
    /\ result.sc.NamespaceFormat = <<"%", "n">>
    /\ result.sc.DataTypesToSync = <<"projects">>
    /\ result.sc.ProjectBlackList = <<>>
    /\ validate(result.sc) # Nil

====
